---- MODULE Spec2Model ----
(***************************************************************************)
(* Model of the synchronisation pipeline of the LeetCode/GitHub tracker    *)
(* backend: update_all_students (functions/update_data.py) with its fetch  *)
(* pool, the metric derivation it calls, the batched metrics upsert with   *)
(* retries, and the notification reconciliation, all inside the single     *)
(* transaction opened by engine.begin().                                   *)
(*                                                                         *)
(* Conventions.  A calendar date "YYYY-MM-DD" is represented by its day    *)
(* number (days since the epoch); a Unix timestamp is a number of seconds. *)
(* A string that the code strips is a sequence of one-character strings.   *)
(* Python's None is the value None below.                                  *)
(*                                                                         *)
(* Specifications.  SpecFetch, SpecStore, SpecTables and SpecPool are runs *)
(* of update_all_students (every roster with reliable storage; storage     *)
(* that fails; missing tables; pools of every width, with fairness).       *)
(* SpecChunks evaluates the batch settings and the chunk loops for any     *)
(* number of successes, SpecStats evaluates compute_stats as               *)
(* _fetch_and_compute calls it over payloads of every shape, and SpecNotif *)
(* interleaves add_or_update_notification calls (functions/notification.py)*)
(* with the upsert of a run.                                               *)
(***************************************************************************)
EXTENDS Integers, Sequences, FiniteSets, TLC

VARIABLES
    roster,          \* rows of the source table: roll -> [gh, lc, name]
    profiles,        \* the profile payloads the practice-site provider can return
    pc,              \* position of update_all_students
    batch_size,      \* clamped DB_UPSERT_BATCH_SIZE
    micro_batch_size,\* clamped DB_MICRO_BATCH_SIZE
    queue,           \* work items submitted to the pool, not yet picked up
    running,         \* work items a pool thread is executing
    futs,            \* roll -> result of a completed, not yet collected future
    calls,           \* roll -> provider calls _fetch_and_compute made for it
    results,         \* list of (roll, stats, name)
    to_add_notif,    \* list of notification rows to upsert
    to_remove_notif, \* list of rolls whose automatic notification is removed
    updated,         \* the nonlocal row counter
    errors,          \* the accumulated error strings
    ci,              \* index of the statement of the current write loop
    attempt,         \* the retry counter of the current statement
    chunkLog,        \* what happened to the statement in progress / just ended
    okRolls,         \* rolls of the metrics chunks whose statement succeeded
    metrics,         \* metrics table as seen inside the transaction
    notif,           \* notification table as seen inside the transaction
    metrics0,        \* metrics table as committed before the run
    notif0,          \* notification table as committed before the run
    txAborted,       \* the transaction is in the failed state
    faults,          \* number of statements with an injected failure so far
    ret,             \* the returned (updated, errors) pair
    tables,          \* which of the source and target table exist
    max_workers,     \* STATS_MAX_WORKERS, the width of the pool
    mw,              \* the add_or_update_notification calls in progress
    calc             \* input and result of a pure helper under evaluation

vars == <<roster, profiles, pc, batch_size, micro_batch_size, queue, running, futs, calls,
          results, to_add_notif, to_remove_notif, updated, errors,
          ci, attempt, chunkLog, okRolls, metrics, notif, metrics0, notif0,
          txAborted, faults, ret, tables, max_workers, mw, calc>>

----------------------------------------------------------------------------
(* Bounds of the model *)

\* number of rows of the roster table
MaxRoll == 2
\* largest width of the worker pool (STATS_MAX_WORKERS)
MaxWorkers == 2
\* number of statements of one run that the environment makes fail
MaxFaults == 2

Rolls == 1..MaxRoll

----------------------------------------------------------------------------
(* Program constants *)

None == -1
SecondsPerDay == 86400
\* the current UTC date, as a day number
Today == 20000
StaleDays == 3
max_retries == 3
\* DB_RETRY_BASE_SLEEP, in milliseconds
base_sleep == 500
BatchClampMax == 100

ReasonText == "No LC submission in last 3 days"
ManualReason == "called by mentor"
SourceTable == "batch_a"
OtherTable == "batch_b"
Tables == {SourceTable, OtherTable}

----------------------------------------------------------------------------
(* Small helpers standing for Python built-ins *)

Max(a, b) == IF a >= b THEN a ELSE b
Min(a, b) == IF a <= b THEN a ELSE b

RECURSIVE Pow2(_)
Pow2(n) == IF n <= 0 THEN 1 ELSE 2 * Pow2(n - 1)

RECURSIVE LStrip(_)
LStrip(s) == IF s # <<>> /\ Head(s) = " " THEN LStrip(Tail(s)) ELSE s

RECURSIVE RStrip(_)
RStrip(s) ==
    IF s # <<>> /\ s[Len(s)] = " " THEN RStrip(SubSeq(s, 1, Len(s) - 1)) ELSE s

\* (v or '').strip()
Strip(v) == IF v = <<>> THEN <<>> ELSE RStrip(LStrip(v))

\* str.lower() on the status texts the provider returns
Lower(s) ==
    CASE s = "Accepted" -> "accepted"
      [] s = "ACCEPTED" -> "accepted"
      [] s = "Wrong Answer" -> "wrong answer"
      [] OTHER -> s

\* seq[i:i + size] for i in range(0, len(seq), size)
RECURSIVE Chunks(_, _)
Chunks(seq, size) ==
    IF seq = <<>> THEN <<>>
    ELSE <<SubSeq(seq, 1, Min(size, Len(seq)))>>
         \o Chunks(SubSeq(seq, Min(size, Len(seq)) + 1, Len(seq)), size)

Range(s) == {s[i] : i \in 1..Len(s)}

----------------------------------------------------------------------------
(* Provider payloads *)

TsOfAge(age) == (Today - age) * SecondsPerDay + 3600

Sub(status, age) == [statusDisplay |-> status, timestamp |-> TsOfAge(age)]

\* the recentSubmissions lists (newest first) the practice-site provider returns
RecentLists ==
    { <<>>,
      <<Sub("Accepted", StaleDays)>>,
      <<Sub("Accepted", StaleDays + 1)>>,
      <<Sub("Wrong Answer", 0), Sub("ACCEPTED", StaleDays + 1)>>,
      <<[statusDisplay |-> "Wrong Answer", timestamp |-> None]>> }

Profiles == [recentSubmissions : RecentLists]

EmptyPayload == [recentSubmissions |-> <<>>]

----------------------------------------------------------------------------
(* compute_stats *)

to_date_from_ts(ts) ==
    IF ts = None \/ ts < 0 THEN None ELSE ts \div SecondsPerDay

RECURSIVE FirstAccepted(_)
FirstAccepted(recent) ==
    IF recent = <<>> THEN None
    ELSE IF Lower(Head(recent).statusDisplay) = "accepted"
         THEN to_date_from_ts(Head(recent).timestamp)
         ELSE FirstAccepted(Tail(recent))

\* d.get(key, default) on a payload
Get(rec, f, default) == IF f \in DOMAIN rec THEN rec[f] ELSE default

(* The submission calendar.  A calendar is the list of its (key, count)    *)
(* entries in the order of the JSON object.  A key is the decimal text of  *)
(* a number of seconds t (unit "s"), the decimal text of 1000 * t (unit    *)
(* "ms"), or a text that is not a number; 1000 * t is never formed, the    *)
(* comparisons with it are made on t.  A count is a number, None, or       *)
(* NonNumeric for a text such as "n/a".                                    *)

NonNumeric == -2

\* 10**10 // 1000: int(s) > 10**10 for the key of 1000 * t iff t exceeds this
TenPow10Div1000 == 10000000

\* timestamp of 9999-12-31T23:59:59 // 1000: beyond it fromtimestamp raises
MaxTimestampDiv1000 == 253402300

SecKey(t) == [unit |-> "s", t |-> t]
MsKey(t) == [unit |-> "ms", t |-> t]
TextKey == [unit |-> "text", t |-> 0]

Entry(k, v) == [k |-> k, v |-> v]

\* s.isdigit()
IsDigitKey(k) == k.unit # "text"

\* int(s) > 10**10
OverTenPow10(k) == k.unit = "ms" /\ k.t > TenPow10Div1000

\* datetime.fromtimestamp(int(s)) raises: the year is beyond 9999
FromTimestampRaises(k) == k.unit = "ms" /\ k.t > MaxTimestampDiv1000

\* datetime.fromtimestamp(int(s), tz=utc).date(): int(s) // 86400, with
\* 1000 * t // 86400 computed without forming 1000 * t
DateOfKey(k) ==
    IF k.unit = "s" THEN k.t \div SecondsPerDay
    ELSE (k.t \div SecondsPerDay) * 1000 + ((k.t % SecondsPerDay) * 1000) \div SecondsPerDay

\* the entries _calc_streaks does not skip: `v is None`, a key that is not a
\* number and `ts <= 0` are the only tests
StreakEntries(sub_cal) ==
    {i \in 1..Len(sub_cal) :
        /\ sub_cal[i].v # None
        /\ IsDigitKey(sub_cal[i].k)
        /\ sub_cal[i].k.t > 0}

\* the set `days` of _calc_streaks
StreakDays(sub_cal) == {DateOfKey(sub_cal[i].k) : i \in StreakEntries(sub_cal)}

SetMin(S) == CHOOSE x \in S : \A y \in S : x <= y
SetMax(S) == CHOOSE x \in S : \A y \in S : y <= x

\* while d <= end: the scan for the longest run of consecutive days
RECURSIVE ScanStreak(_, _, _, _, _)
ScanStreak(days, d, end, cur_streak, max_streak) ==
    IF d > end THEN max_streak
    ELSE IF d \in days
         THEN ScanStreak(days, d + 1, end, cur_streak + 1, Max(max_streak, cur_streak + 1))
         ELSE ScanStreak(days, d + 1, end, 0, max_streak)

\* a count of every day up to d, whether or not the days are consecutive
WalkBackAll(days, d) == Cardinality({x \in days : x <= d})

\* while d in days: the walk back from today
RECURSIVE WalkBack(_, _)
WalkBack(days, d) == IF d \in days THEN 1 + WalkBack(days, d - 1) ELSE 0

\* (cur, max_streak) of a set of days
StreaksOf(days) ==
    IF days = {} THEN <<0, 0>>
    ELSE <<WalkBack(days, Today),
           ScanStreak(days, SetMin(days), SetMax(days), 0, 0)>>

calc_streaks(sub_cal) ==
    IF sub_cal = <<>> THEN <<None, None>>
    ELSE IF \E i \in StreakEntries(sub_cal) : FromTimestampRaises(sub_cal[i].k)
         THEN <<None, None>>
         ELSE StreaksOf(StreakDays(sub_cal))

\* lc_prof.get("submissionCalendar") or {}, replaced by the parsed calendar of
\* the calendar endpoint when that one is not empty
sub_cal_raw(lc_prof) ==
    IF Get(lc_prof, "calendar", <<>>) # <<>>
    THEN lc_prof.calendar
    ELSE Get(lc_prof, "submissionCalendar", <<>>)

NoHistory == [ok |-> FALSE, map |-> <<>>]

\* the date of a key in lc_history: the milliseconds guard, then fromtimestamp
HistoryDate(k) == IF OverTenPow10(k) THEN k.t \div SecondsPerDay ELSE DateOfKey(k)

\* int(v or 0)
HistoryCount(v) == IF v = None THEN 0 ELSE v

\* the loop that fills lc_history; an exception leaves lc_history = None
RECURSIVE HistoryFrom(_, _, _)
HistoryFrom(sub_cal, i, h) ==
    IF i > Len(sub_cal) THEN [ok |-> TRUE, map |-> h]
    ELSE LET k == sub_cal[i].k
             v == sub_cal[i].v
         IN  IF ~IsDigitKey(k) THEN HistoryFrom(sub_cal, i + 1, h)
             ELSE IF (~OverTenPow10(k) /\ FromTimestampRaises(k)) \/ v = NonNumeric
             THEN NoHistory
             ELSE HistoryFrom(sub_cal, i + 1,
                              [d \in DOMAIN h \cup {HistoryDate(k)} |->
                                  IF d = HistoryDate(k) THEN HistoryCount(v) ELSE h[d]])

lc_history(sub_cal) ==
    IF sub_cal = <<>> THEN NoHistory ELSE HistoryFrom(sub_cal, 1, <<>>)

compute_stats(lc_prof) ==
    LET recent == lc_prof.recentSubmissions
    IN  [lc_lastsubmission |->
             IF recent # <<>> THEN to_date_from_ts(recent[1].timestamp) ELSE None,
         lc_lastacceptedsubmission |-> FirstAccepted(recent),
         lc_cur_streak |-> calc_streaks(sub_cal_raw(lc_prof))[1],
         lc_max_streak |-> calc_streaks(sub_cal_raw(lc_prof))[2],
         lc_submission_history |-> lc_history(sub_cal_raw(lc_prof))]

EmptyStats == [lc_lastsubmission |-> None, lc_lastacceptedsubmission |-> None]

(* The statements of compute_stats that are outside every try block.  The  *)
(* record `lc_prof` holds the fields of the profile payload and, under     *)
(* `lang`, the payload of get_leetcode_language_stats.                     *)

\* a list element that is not a JSON object (a string, a number, null)
NotADict == [nondict |-> TRUE]

IsDict(x) == "nondict" \notin DOMAIN x

\* for sub in recent: sub.get("statusDisplay") ... break
RECURSIVE ScanRaises(_)
ScanRaises(recent) ==
    IF recent = <<>> THEN FALSE
    ELSE IF ~IsDict(Head(recent)) THEN TRUE
    ELSE IF Lower(Head(recent).statusDisplay) = "accepted" THEN FALSE
    ELSE ScanRaises(Tail(recent))

\* recent[0].get("timestamp") and the scan for the accepted entry
recent_exc(recent) ==
    IF recent = <<>> THEN ""
    ELSE IF ~IsDict(recent[1]) \/ ScanRaises(recent) THEN "AttributeError"
    ELSE ""

\* a language payload without the matchedUser key
NoLang == [matchedUser |-> "absent"]

\* lc_lang.get("matchedUser", {}).get("languageProblemCount", []) and the
\* comprehension over it
languages_exc(lc_lang) ==
    CASE lc_lang.matchedUser = "absent" -> ""
      [] lc_lang.matchedUser = "null" -> "AttributeError"
      [] lc_lang.languageProblemCount = "absent" -> ""
      [] lc_lang.languageProblemCount = "null" -> "TypeError"
      [] OTHER ->
           IF \E i \in 1..Len(lc_lang.items) : ~IsDict(lc_lang.items[i])
           THEN "AttributeError" ELSE ""

\* the exception compute_stats raises, "" when it returns
compute_stats_exc(lc_prof) ==
    IF recent_exc(lc_prof.recentSubmissions) # ""
    THEN recent_exc(lc_prof.recentSubmissions)
    ELSE languages_exc(Get(lc_prof, "lang", NoLang))

----------------------------------------------------------------------------
(* Error strings.  Every string the run appends to errors is modelled by   *)
(* its text pattern (kind), the roll or the row count it prints, and the    *)
(* exception type it prints.                                               *)

Err(kind, roll, rows, cause) ==
    [kind |-> kind, roll |-> roll, rows |-> rows, cause |-> cause]

NoErr == Err("none", 0, 0, "")

----------------------------------------------------------------------------
(* update_all_students: roster read and work items *)

WorkItem(r) ==
    [roll |-> r, gh |-> Strip(roster[r].gh), lc |-> Strip(roster[r].lc),
     name |-> Strip(roster[r].name)]

\* a roster walk that skips no row
RECURSIVE WorkFromAll(_)
WorkFromAll(r) ==
    IF r > MaxRoll THEN <<>> ELSE <<WorkItem(r)>> \o WorkFromAll(r + 1)

RECURSIVE WorkFrom(_)
WorkFrom(r) ==
    IF r > MaxRoll THEN <<>>
    ELSE LET it == WorkItem(r)
         IN  (IF it.gh = <<>> /\ it.lc = <<>> THEN <<>> ELSE <<it>>)
             \o WorkFrom(r + 1)

Work == WorkFrom(1)

ClampBatch(env) == Max(1, Min(env, BatchClampMax))
ClampMicro(env, batch) == Max(1, Min(env, batch))

----------------------------------------------------------------------------
(* _fetch_and_compute *)

CallList(item) ==
    (IF item.gh # <<>>
        THEN <<"get_github_summary", "get_github_contributions">> ELSE <<>>)
    \o (IF item.lc # <<>>
        THEN <<"get_leetcode_profile", "get_leetcode_language_stats",
               "get_leetcode_badges", "get_leetcode_calendar">>
        ELSE <<>>)

\* the calls made up to and including the one that raises
CallsMade(item, failAt) ==
    [made |-> IF failAt = 0 THEN CallList(item) ELSE SubSeq(CallList(item), 1, failAt),
     raised |-> failAt > 0]

NoCalls == [made |-> <<>>, raised |-> FALSE]

\* failAt: index of the provider call that raises, 0 when none does;
\* prof: the payloads the practice-site provider returns
fetch_and_compute(item, failAt, prof) ==
    IF failAt > 0
    THEN [roll |-> item.roll, stats |-> EmptyStats, name |-> item.name,
          err |-> Err("fetch", item.roll, 0, "ProviderError")]
    ELSE IF item.gh = <<>> \/ item.lc = <<>>
    THEN \* git_contri / lc_calendar is never bound on the path that skips
         \* the provider: reading it raises inside the try
         [roll |-> item.roll, stats |-> EmptyStats, name |-> item.name,
          err |-> Err("fetch", item.roll, 0, "UnboundLocalError")]
    ELSE IF compute_stats_exc(prof) # ""
    THEN \* compute_stats is called inside the try of _fetch_and_compute
         [roll |-> item.roll, stats |-> EmptyStats, name |-> item.name,
          err |-> Err("fetch", item.roll, 0, compute_stats_exc(prof))]
    ELSE [roll |-> item.roll,
          stats |-> compute_stats(IF item.lc # <<>> THEN prof ELSE EmptyPayload),
          name |-> item.name, err |-> NoErr]

NoFuture == [roll |-> 0, stats |-> EmptyStats, name |-> <<>>, err |-> NoErr]

----------------------------------------------------------------------------
(* the collector's notification decision *)

\* the threshold compared with >= instead of >
StaleFlagInclusive(stats) ==
    LET lc_last == stats.lc_lastsubmission
    IN  IF lc_last # None THEN (Today - lc_last) >= StaleDays ELSE TRUE

StaleFlag(stats) ==
    LET lc_last == stats.lc_lastsubmission
    IN  IF lc_last # None THEN (Today - lc_last) > StaleDays ELSE TRUE

NotifRow(roll, name) ==
    [table_name |-> SourceTable, rollnumber |-> roll, name |-> name,
     reason |-> ReasonText]

----------------------------------------------------------------------------
(* The two tables the run writes *)

NoRow == [present |-> FALSE, stats |-> EmptyStats]
OldRow == [present |-> TRUE,
           stats |-> [lc_lastsubmission |-> Today - 30,
                      lc_lastacceptedsubmission |-> Today - 30]]
Row(stats) == [present |-> TRUE, stats |-> stats]

NoRec == [present |-> FALSE, name |-> <<>>, reason |-> ""]
Rec(name, reason) == [present |-> TRUE, name |-> name, reason |-> reason]

OldName == <<"o", "l", "d">>

RosterName(r) == IF r = 1 THEN <<" ", "a", "n", "n", " ">> ELSE <<"b", "o", "b">>

\* an absent handle is NULL or empty (both <<>> after `or ''`) or blank
GhValues == {<<" ">>, <<"g", "h">>}
LcValues == {<<>>, <<"l", "c">>}

\* notification tables before the run: the other roster always has an automatic
\* record for roll 1; this roster has none, or an automatic record for roll 1 and
\* a manually entered one for roll 2
NotifBase ==
    [k \in Tables \X Rolls |->
        IF k = <<OtherTable, 1>> THEN Rec(OldName, ReasonText) ELSE NoRec]

NotifInits ==
    {NotifBase,
     [NotifBase EXCEPT ![<<SourceTable, 1>>] = Rec(OldName, ReasonText),
                       ![<<SourceTable, 2>>] = Rec(OldName, ManualReason)]}

\* profile payloads of a practice-site account that is either fresh or stale
FlagProfiles ==
    [recentSubmissions : {<<Sub("Accepted", StaleDays)>>, <<Sub("Accepted", StaleDays + 1)>>}]

AllRosters ==
    { [r \in Rolls |-> [gh |-> gh[r], lc |-> lc[r], name |-> RosterName(r)]] :
          gh \in [Rolls -> GhValues], lc \in [Rolls -> LcValues] }

\* every identity has both handles
FullRoster ==
    [r \in Rolls |-> [gh |-> <<"g", "h">>, lc |-> <<"l", "c">>, name |-> RosterName(r)]]

EnvBatchSizes == {1, 2}
EnvMicroSizes == {1, 8}

----------------------------------------------------------------------------
(* Chunk plan of the write stage *)

\* for outer in _chunks(seq, batch): for micro in _chunks(outer, micro)
RECURSIVE MicroOfOuters(_, _)
MicroOfOuters(outers, micro) ==
    IF outers = <<>> THEN <<>>
    ELSE Chunks(Head(outers), micro) \o MicroOfOuters(Tail(outers), micro)

\* a chunker that ignores the outer batches
MicroChunksFlat(seq, batch, micro) == Chunks(seq, micro)

MicroChunks(seq, batch, micro) == MicroOfOuters(Chunks(seq, batch), micro)

Statements(stage, res, rem, add) ==
    CASE stage = "metrics" -> MicroChunks(res, batch_size, micro_batch_size)
      [] stage = "notif_remove" -> Chunks(rem, Max(1, batch_size))
      [] stage = "notif_upsert" -> MicroChunks(add, batch_size, micro_batch_size)
      [] OTHER -> <<>>

\* a write stage that upserts the notifications before it deletes
StageAfterUpsertFirst(stage) ==
    CASE stage = "begin" -> "metrics"
      [] stage = "metrics" -> "notif_upsert"
      [] stage = "notif_upsert" -> "notif_remove"
      [] OTHER -> "commit"

StageAfter(stage) ==
    CASE stage = "begin" -> "metrics"
      [] stage = "metrics" -> "notif_remove"
      [] stage = "notif_remove" -> "notif_upsert"
      [] OTHER -> "commit"

\* the first statement at or after the start of `stage`
RECURSIVE FirstFrom(_, _, _, _)
FirstFrom(stage, res, rem, add) ==
    IF stage = "commit" THEN <<"commit", 0>>
    ELSE IF Len(Statements(stage, res, rem, add)) > 0 THEN <<stage, 1>>
    ELSE FirstFrom(StageAfter(stage), res, rem, add)

\* the statement after statement idx of `stage`
NextPos(stage, idx) ==
    IF idx < Len(Statements(stage, results, to_remove_notif, to_add_notif))
    THEN <<stage, idx + 1>>
    ELSE FirstFrom(StageAfter(stage), results, to_remove_notif, to_add_notif)

CurrentStatement ==
    Statements(pc, results, to_remove_notif, to_add_notif)[ci]

----------------------------------------------------------------------------
(* Log of the statement in progress, kept for the statements about retries *)

NoLog == [stage |-> "none", idx |-> 0, rows |-> 0, outs |-> <<>>,
          sleeps |-> <<>>, ended |-> TRUE, errsBefore |-> 0, updBefore |-> 0]

\* the statement at (pc, ci) has already failed and is being retried
Retrying == chunkLog.stage = pc /\ chunkLog.idx = ci /\ ~chunkLog.ended

\* the log to extend when statement (pc, ci) is executed once more
OpenLog(rows) ==
    IF Retrying
    THEN chunkLog
    ELSE [stage |-> pc, idx |-> ci, rows |-> rows, outs |-> <<>>,
          sleeps |-> <<>>, ended |-> FALSE, errsBefore |-> Len(errors),
          updBefore |-> updated]

----------------------------------------------------------------------------
(* Initial state: the tables before the run, nothing started *)

\* both tables of the request exist
BothTables == [source |-> TRUE, target |-> TRUE]
\* no add_or_update_notification call is in progress
NoWriters == <<>>
\* no helper is being evaluated
NoCalc == [fn |-> "none"]

RunInit(rosters, profs, notifs, tbls) ==
    /\ roster \in rosters
    /\ profiles = profs
    /\ tables \in tbls
    /\ notif0 \in notifs
    /\ notif = notif0
    /\ metrics0 = [r \in Rolls |-> IF r = 1 THEN OldRow ELSE NoRow]
    /\ metrics = metrics0
    /\ pc = "start"
    /\ batch_size = 0
    /\ micro_batch_size = 0
    /\ queue = <<>>
    /\ running = {}
    /\ futs = [r \in Rolls |-> NoFuture]
    /\ calls = [r \in Rolls |-> NoCalls]
    /\ results = <<>>
    /\ to_add_notif = <<>>
    /\ to_remove_notif = <<>>
    /\ updated = 0
    /\ errors = <<>>
    /\ ci = 0
    /\ attempt = 0
    /\ chunkLog = NoLog
    /\ okRolls = {}
    /\ txAborted = FALSE
    /\ faults = 0
    /\ ret = [returned |-> FALSE, raised |-> "", updated |-> 0, errors |-> <<>>]

InitWith(rosters, profs) ==
    /\ RunInit(rosters, profs, NotifInits, {BothTables})
    /\ max_workers = MaxWorkers
    /\ mw = NoWriters
    /\ calc = NoCalc

----------------------------------------------------------------------------
(* update_all_students: table checks, roster read, work items, settings *)

\* a precondition that looks at the source table only
HasTablesSourceOnly(t) == t.source

\* inspector.has_table(source_table) and inspector.has_table(target_table)
HasTables(t) == t.source /\ t.target

\* the ValueError of the first table found missing
MissingTableError(t) ==
    IF ~t.source THEN "ValueError: Source table does not exist"
    ELSE "ValueError: Target table does not exist"

ReadRoster ==
    /\ pc = "start"
    /\ IF ~HasTables(tables)
       THEN /\ pc' = "raised"
            /\ ret' = [ret EXCEPT !.raised = MissingTableError(tables)]
            /\ UNCHANGED <<batch_size, micro_batch_size, queue>>
       ELSE IF Work = <<>>
       THEN /\ pc' = "done"
            /\ ret' = [returned |-> TRUE, raised |-> "", updated |-> 0, errors |-> <<>>]
            /\ UNCHANGED <<batch_size, micro_batch_size, queue>>
       ELSE /\ \E eb \in EnvBatchSizes, em \in EnvMicroSizes :
                  /\ batch_size' = ClampBatch(eb)
                  /\ micro_batch_size' = ClampMicro(em, ClampBatch(eb))
            /\ queue' = Work
            /\ pc' = "fetch"
            /\ UNCHANGED ret
    /\ UNCHANGED <<tables, max_workers, mw, calc, roster, profiles, okRolls, running, futs, calls, results, to_add_notif,
                   to_remove_notif, updated, errors, ci, attempt, chunkLog,
                   metrics, notif, metrics0, notif0, txAborted, faults>>

----------------------------------------------------------------------------
(* The worker pool *)

\* a free pool thread takes the oldest submitted work item
\* a pool that starts a thread for every submitted item
PoolUnbounded == TRUE

\* ThreadPoolExecutor(max_workers=max_workers) runs at most max_workers items
PoolHasFreeThread == Cardinality(running) < max_workers

WorkerStart(r) ==
    /\ pc = "fetch"
    /\ queue # <<>>
    /\ Head(queue).roll = r
    /\ PoolHasFreeThread
    /\ running' = running \cup {r}
    /\ queue' = Tail(queue)
    /\ UNCHANGED <<tables, max_workers, mw, calc, roster, profiles, okRolls, pc, batch_size, micro_batch_size, futs, calls, results,
                   to_add_notif, to_remove_notif, updated, errors, ci, attempt,
                   chunkLog, metrics, notif, metrics0, notif0, txAborted, faults,
                   ret>>

\* the thread runs _fetch_and_compute to its return
WorkerFinish(r) ==
    /\ pc = "fetch"
    /\ r \in running
    /\ \E failAt \in 0..Len(CallList(WorkItem(r))), prof \in profiles :
          /\ futs' = [futs EXCEPT ![r] = fetch_and_compute(WorkItem(r), failAt, prof)]
          /\ calls' = [calls EXCEPT ![r] = CallsMade(WorkItem(r), failAt)]
    /\ running' = running \ {r}
    /\ UNCHANGED <<tables, max_workers, mw, calc, roster, profiles, okRolls, pc, batch_size, micro_batch_size, queue, results,
                   to_add_notif, to_remove_notif, updated, errors, ci, attempt,
                   chunkLog, metrics, notif, metrics0, notif0, txAborted, faults,
                   ret>>

----------------------------------------------------------------------------
(* The collector: one iteration of the as_completed loop *)

CollectErrors(fut) ==
    IF fut.err # NoErr THEN Append(errors, fut.err) ELSE errors

\* the collector without its `continue`: a failed item is kept as a result too
CollectResultsNoContinue(fut) ==
    Append(results, [roll |-> fut.roll, stats |-> fut.stats, name |-> fut.name])

\* a collector that keeps the success that completed last only
CollectResultsLastOnly(fut) ==
    IF fut.err # NoErr THEN results
    ELSE <<[roll |-> fut.roll, stats |-> fut.stats, name |-> fut.name]>>

CollectResults(fut) ==
    IF fut.err # NoErr THEN results
    ELSE Append(results, [roll |-> fut.roll, stats |-> fut.stats, name |-> fut.name])

\* the flag of a failed item taken from its empty metrics: it is set
CollectToAddNoContinue(fut) ==
    IF StaleFlag(fut.stats)
    THEN Append(to_add_notif, NotifRow(fut.roll, fut.name))
    ELSE to_add_notif

CollectToAdd(fut) ==
    IF fut.err = NoErr /\ StaleFlag(fut.stats)
    THEN Append(to_add_notif, NotifRow(fut.roll, fut.name))
    ELSE to_add_notif

CollectToRemove(fut) ==
    IF fut.err = NoErr /\ ~StaleFlag(fut.stats)
    THEN Append(to_remove_notif, fut.roll)
    ELSE to_remove_notif

Collect(r) ==
    /\ pc = "fetch"
    /\ futs[r] # NoFuture
    /\ futs' = [futs EXCEPT ![r] = NoFuture]
    /\ calls' = [calls EXCEPT ![r] = NoCalls]
    /\ errors' = CollectErrors(futs[r])
    /\ results' = CollectResults(futs[r])
    /\ to_add_notif' = CollectToAdd(futs[r])
    /\ to_remove_notif' = CollectToRemove(futs[r])
    /\ IF queue = <<>> /\ running = {} /\ \A q \in Rolls : futs'[q] = NoFuture
       THEN \* the pool is shut down and engine.begin() opens the transaction
            LET pos == FirstFrom("metrics", results', to_remove_notif', to_add_notif')
            IN  pc' = pos[1] /\ ci' = pos[2]
       ELSE UNCHANGED <<pc, ci>>
    /\ UNCHANGED <<tables, max_workers, mw, calc, roster, profiles, okRolls, batch_size, micro_batch_size, queue, running,
                   updated, attempt, chunkLog, metrics, notif, metrics0, notif0,
                   txAborted, faults, ret>>

----------------------------------------------------------------------------
(* The storage engine as the run sees it.  Every write of the run goes     *)
(* through the one connection of `with engine.begin() as conn`: one        *)
(* PostgreSQL transaction.  A statement either succeeds or raises; a       *)
(* statement that raises may leave the transaction in the failed state,    *)
(* in which every later statement raises InternalError and the commit at   *)
(* the end of the block discards the writes of the whole block.            *)

InjectedExc == {"OperationalError", "IntegrityError"}

\* a handler that takes every exception for a transient one
IsTransientAny(exc) == TRUE

\* except (OperationalError, InterfaceError)
IsTransient(exc) == exc \in {"OperationalError", "InterfaceError"}

EnvFails(exc, aborts) ==
    IF txAborted
    THEN exc = "InternalError" /\ aborts = TRUE
    ELSE exc \in InjectedExc /\ aborts \in BOOLEAN /\ (Retrying \/ faults < MaxFaults)

FaultsAfter == IF txAborted \/ Retrying THEN faults ELSE faults + 1

\* INSERT ... ON CONFLICT (rollnumber) DO UPDATE SET <all other columns>
UpsertMetrics(tbl, chunk) ==
    [r \in Rolls |->
        IF \E i \in 1..Len(chunk) : chunk[i].roll = r
        THEN Row((CHOOSE e \in Range(chunk) : e.roll = r).stats)
        ELSE tbl[r]]

\* the delete filtered on the metrics table's name instead of the roster's
DeleteNotifWrongTable(tbl, roll_chunk) ==
    [k \in Tables \X Rolls |->
        IF /\ tbl[k].present
           /\ k[1] = "batch_a_Data"
           /\ tbl[k].reason = ReasonText
           /\ k[2] \in Range(roll_chunk)
        THEN NoRec ELSE tbl[k]]

\* DELETE ... WHERE table_name = :t AND reason = :r AND rollnumber IN (...)
DeleteNotif(tbl, roll_chunk) ==
    [k \in Tables \X Rolls |->
        IF /\ tbl[k].present
           /\ k[1] = SourceTable
           /\ tbl[k].reason = ReasonText
           /\ k[2] \in Range(roll_chunk)
        THEN NoRec ELSE tbl[k]]

\* INSERT ... ON CONFLICT (table_name, rollnumber) DO UPDATE SET name, reason
UpsertNotif(tbl, micro) ==
    [k \in Tables \X Rolls |->
        IF \E i \in 1..Len(micro) : <<micro[i].table_name, micro[i].rollnumber>> = k
        THEN LET e == CHOOSE e \in Range(micro) : <<e.table_name, e.rollnumber>> = k
             IN  Rec(e.name, e.reason)
        ELSE tbl[k]]

----------------------------------------------------------------------------
(* _execute_payload and the notification loops: the retry policy *)

\* sleep_for = base_sleep * (2 ** (attempt - 1))
SleepFor(att) == base_sleep * Pow2(att - 1)

\* the ceiling tested with >= instead of >
RetriesExceededEarly(att) == att >= max_retries

\* if attempt > max_retries
RetriesExceeded(att) == att > max_retries

\* the counter advanced by one per statement instead of one per row
UpdatedAfterPerStatement(chunk) == updated + 1

\* updated += len(payload_list)
UpdatedAfter(chunk) == updated + Len(chunk)

\* the statement at (stage, ci) ends: the loop moves to the next statement
Advance(stage) ==
    LET pos == NextPos(stage, ci)
    IN  pc' = pos[1] /\ ci' = pos[2] /\ attempt' = 0

\* a write loop without its except clause: the exception leaves the run
FailEscapes(stage, exc, rows, errRows, kindRetries, kindFatal) ==
    /\ pc' = "raised"
    /\ UNCHANGED <<errors, ci, attempt, chunkLog>>

\* one failed conn.execute of a statement run under the retry loop
\* (errRows: the row count the error text prints, 0 when it prints none)
FailWithRetry(stage, exc, rows, errRows, kindRetries, kindFatal) ==
    LET log == [OpenLog(rows) EXCEPT !.outs = Append(@, exc)]
    IN  IF IsTransient(exc)
        THEN IF RetriesExceeded(attempt + 1)
             THEN /\ errors' = Append(errors, Err(kindRetries, 0, errRows, exc))
                  /\ chunkLog' = [log EXCEPT !.ended = TRUE]
                  /\ Advance(stage)
             ELSE /\ attempt' = attempt + 1
                  /\ chunkLog' = [log EXCEPT !.sleeps = Append(@, SleepFor(attempt + 1))]
                  /\ UNCHANGED <<errors, pc, ci>>
        ELSE /\ errors' = Append(errors, Err(kindFatal, 0, errRows, exc))
             /\ chunkLog' = [log EXCEPT !.ended = TRUE]
             /\ Advance(stage)

MetricsExecOk ==
    /\ pc = "metrics"
    /\ ~txAborted
    /\ metrics' = UpsertMetrics(metrics, CurrentStatement)
    /\ updated' = UpdatedAfter(CurrentStatement)
    /\ chunkLog' = [OpenLog(Len(CurrentStatement)) EXCEPT
                       !.outs = Append(@, "ok"), !.ended = TRUE]
    /\ okRolls' = okRolls \cup {CurrentStatement[i].roll : i \in 1..Len(CurrentStatement)}
    /\ Advance("metrics")
    /\ UNCHANGED <<tables, max_workers, mw, calc, roster, profiles, batch_size, micro_batch_size, queue, running, futs, calls,
                   results, to_add_notif, to_remove_notif, errors, notif, metrics0,
                   notif0, txAborted, faults, ret>>

MetricsExecFail(exc, aborts) ==
    /\ pc = "metrics"
    /\ EnvFails(exc, aborts)
    /\ txAborted' = aborts
    /\ faults' = FaultsAfter
    /\ FailWithRetry("metrics", exc, Len(CurrentStatement), Len(CurrentStatement),
                     "upsert retries exceeded", "upsert error")
    /\ UNCHANGED <<tables, max_workers, mw, calc, roster, profiles, okRolls, batch_size, micro_batch_size, queue, running, futs, calls,
                   results, to_add_notif, to_remove_notif, updated, metrics, notif,
                   metrics0, notif0, ret>>

NotifRemoveOk ==
    /\ pc = "notif_remove"
    /\ ~txAborted
    /\ notif' = DeleteNotif(notif, CurrentStatement)
    /\ chunkLog' = [OpenLog(Len(CurrentStatement)) EXCEPT
                       !.outs = Append(@, "ok"), !.ended = TRUE]
    /\ Advance("notif_remove")
    /\ UNCHANGED <<tables, max_workers, mw, calc, roster, profiles, okRolls, batch_size, micro_batch_size, queue, running, futs, calls,
                   results, to_add_notif, to_remove_notif, updated, errors, metrics,
                   metrics0, notif0, txAborted, faults, ret>>

\* except Exception as ne: no retry for a delete
NotifRemoveFail(exc, aborts) ==
    /\ pc = "notif_remove"
    /\ EnvFails(exc, aborts)
    /\ txAborted' = aborts
    /\ faults' = FaultsAfter
    /\ errors' = Append(errors, Err("notif-remove batch", 0, 0, exc))
    /\ chunkLog' = [OpenLog(Len(CurrentStatement)) EXCEPT
                       !.outs = Append(@, exc), !.ended = TRUE]
    /\ Advance("notif_remove")
    /\ UNCHANGED <<tables, max_workers, mw, calc, roster, profiles, okRolls, batch_size, micro_batch_size, queue, running, futs, calls,
                   results, to_add_notif, to_remove_notif, updated, metrics, notif,
                   metrics0, notif0, ret>>

NotifUpsertOk ==
    /\ pc = "notif_upsert"
    /\ ~txAborted
    /\ notif' = UpsertNotif(notif, CurrentStatement)
    /\ chunkLog' = [OpenLog(Len(CurrentStatement)) EXCEPT
                       !.outs = Append(@, "ok"), !.ended = TRUE]
    /\ Advance("notif_upsert")
    /\ UNCHANGED <<tables, max_workers, mw, calc, roster, profiles, okRolls, batch_size, micro_batch_size, queue, running, futs, calls,
                   results, to_add_notif, to_remove_notif, updated, errors, metrics,
                   metrics0, notif0, txAborted, faults, ret>>

NotifUpsertFail(exc, aborts) ==
    /\ pc = "notif_upsert"
    /\ EnvFails(exc, aborts)
    /\ txAborted' = aborts
    /\ faults' = FaultsAfter
    /\ FailWithRetry("notif_upsert", exc, Len(CurrentStatement), 0,
                     "notif-upsert retries exceeded", "notif-upsert batch")
    /\ UNCHANGED <<tables, max_workers, mw, calc, roster, profiles, okRolls, batch_size, micro_batch_size, queue, running, futs, calls,
                   results, to_add_notif, to_remove_notif, updated, metrics, notif,
                   metrics0, notif0, ret>>

----------------------------------------------------------------------------
(* The end of the with-block and the return *)

\* COMMIT of a transaction in the failed state is a ROLLBACK
Committed(tbl, before) == IF txAborted THEN before ELSE tbl

Return ==
    /\ pc = "commit"
    /\ metrics' = Committed(metrics, metrics0)
    /\ notif' = Committed(notif, notif0)
    /\ ret' = [returned |-> TRUE, raised |-> "", updated |-> updated, errors |-> errors]
    /\ pc' = "done"
    /\ UNCHANGED <<tables, max_workers, mw, calc, roster, profiles, okRolls, batch_size, micro_batch_size, queue, running, futs, calls,
                   results, to_add_notif, to_remove_notif, updated, errors, ci,
                   attempt, chunkLog, metrics0, notif0, txAborted, faults>>

----------------------------------------------------------------------------

\* the run with a storage engine that executes every statement
NextReliable ==
    \/ ReadRoster
    \/ \E r \in Rolls : WorkerStart(r)
    \/ \E r \in Rolls : WorkerFinish(r)
    \/ \E r \in Rolls : Collect(r)
    \/ MetricsExecOk
    \/ NotifRemoveOk
    \/ NotifUpsertOk
    \/ Return

\* the run with a storage engine whose statements can fail
Next ==
    \/ NextReliable
    \/ \E exc \in InjectedExc \cup {"InternalError"}, aborts \in BOOLEAN :
           MetricsExecFail(exc, aborts)
    \/ \E exc \in InjectedExc \cup {"InternalError"}, aborts \in BOOLEAN :
           NotifRemoveFail(exc, aborts)
    \/ \E exc \in InjectedExc \cup {"InternalError"}, aborts \in BOOLEAN :
           NotifUpsertFail(exc, aborts)

\* a run that has not started, next to which a helper is evaluated
IdleRun == RunInit({FullRoster}, FlagProfiles, {NotifBase}, {BothTables})

\* a request may name a roster whose source or target table does not exist
TableStates == [source : BOOLEAN, target : BOOLEAN]

InitTables ==
    /\ RunInit({FullRoster}, FlagProfiles, NotifInits, TableStates)
    /\ max_workers = MaxWorkers
    /\ mw = NoWriters
    /\ calc = NoCalc

SpecTables == InitTables /\ [][NextReliable]_vars

\* pools of every width up to the bound, reliable storage
InitPool ==
    /\ RunInit({FullRoster}, FlagProfiles, {NotifBase}, {BothTables})
    /\ max_workers \in 1..MaxWorkers
    /\ mw = NoWriters
    /\ calc = NoCalc

\* the pool threads and the collector proceed, every provider call returns or
\* times out
SpecPool == InitPool /\ [][NextReliable]_vars /\ WF_vars(NextReliable)

\* every roster, every provider answer, reliable storage
InitFetch == InitWith(AllRosters, Profiles)
SpecFetch == InitFetch /\ [][NextReliable]_vars

\* identities with both handles, fresh or stale, storage that can fail
InitStore == InitWith({FullRoster}, FlagProfiles)
SpecStore == InitStore /\ [][Next]_vars

----------------------------------------------------------------------------
(* Vocabulary of the properties *)

HasHandle(r) == Strip(roster[r].gh) # <<>> \/ Strip(roster[r].lc) # <<>>

ExactlyOneHandle(r) ==
    (Strip(roster[r].gh) # <<>>) # (Strip(roster[r].lc) # <<>>)

FetchDone == pc \notin {"start", "fetch"}

Successes(r) == {i \in 1..Len(results) : results[i].roll = r}

FetchErrors(r) ==
    {i \in 1..Len(errors) : errors[i].kind = "fetch" /\ errors[i].roll = r}

AllFetchErrors == {i \in 1..Len(errors) : errors[i].kind = "fetch"}

InToAdd(r) == \E i \in 1..Len(to_add_notif) : to_add_notif[i].rollnumber = r
InToRemove(r) == \E i \in 1..Len(to_remove_notif) : to_remove_notif[i] = r

StatsOf(r) == (CHOOSE e \in Range(results) : e.roll = r).stats

----------------------------------------------------------------------------
(* C1: in the fetch stage every identity with a handle yields exactly one  *)
(* outcome, a success tuple or one error string carrying its identifier;   *)
(* never two, and when the stage is over the successes and the fetch       *)
(* errors together number the identities that have a handle.               *)
C1_OneOutcomePerIdentity ==
    /\ \A r \in Rolls :
          /\ Cardinality(Successes(r)) + Cardinality(FetchErrors(r)) <= 1
          /\ ~HasHandle(r) =>
                Cardinality(Successes(r)) + Cardinality(FetchErrors(r)) = 0
    /\ FetchDone =>
          /\ \A r \in Rolls :
                HasHandle(r) =>
                   Cardinality(Successes(r)) + Cardinality(FetchErrors(r)) = 1
          /\ Len(results) + Cardinality(AllFetchErrors)
                = Cardinality({r \in Rolls : HasHandle(r)})

\* one identity failed and another one succeeded in the same run
C1_Witness ==
    /\ FetchDone
    /\ \E r, q \in Rolls :
          r # q /\ Cardinality(FetchErrors(r)) = 1 /\ Cardinality(Successes(q)) = 1

(* C2: an identity with exactly one handle whose provider calls all        *)
(* succeed completes as a success, and only the calls of the provider      *)
(* whose handle is present were made.                                      *)
C2_SingleHandleSucceeds ==
    \A r \in Rolls :
        (futs[r] # NoFuture /\ ExactlyOneHandle(r) /\ ~calls[r].raised) =>
            /\ futs[r].err = NoErr
            /\ calls[r].made = CallList(WorkItem(r))

----------------------------------------------------------------------------
(* Vocabulary of the write stage *)

NotifErrors ==
    {i \in 1..Len(errors) :
        errors[i].kind \in {"notif-remove batch", "notif-upsert retries exceeded",
                            "notif-upsert batch"}}

UpsertErrors ==
    {i \in 1..Len(errors) :
        errors[i].kind \in {"upsert retries exceeded", "upsert error"}}

Key(r) == <<SourceTable, r>>

HasAutoRecord(tbl, r) == tbl[Key(r)].present /\ tbl[Key(r)].reason = ReasonText

HasManualRecord(tbl, r) == tbl[Key(r)].present /\ tbl[Key(r)].reason # ReasonText

MetricChunks == MicroChunks(results, batch_size, micro_batch_size)

ChunkRolls(chunk) == {chunk[i].roll : i \in 1..Len(chunk)}

Last(seq) == seq[Len(seq)]

TransientNames == {"OperationalError", "InterfaceError"}

\* the log of a metrics statement that has ended
MetricsEnded == chunkLog.stage = "metrics" /\ chunkLog.ended

ErrorsAdded == Len(errors) - chunkLog.errsBefore
RowsCounted == updated - chunkLog.updBefore

\* the last statement the write stage has to execute
PlanEnd ==
    LET stmts(stage) == Statements(stage, results, to_remove_notif, to_add_notif)
    IN  IF stmts("notif_upsert") # <<>> THEN <<"notif_upsert", Len(stmts("notif_upsert"))>>
        ELSE IF stmts("notif_remove") # <<>>
             THEN <<"notif_remove", Len(stmts("notif_remove"))>>
             ELSE <<"metrics", Len(stmts("metrics"))>>

\* the loop has left the statement of the log
MovedOn == pc = chunkLog.stage => ci > chunkLog.idx

----------------------------------------------------------------------------
(* C4: when the run has returned and no notification statement failed,     *)
(* every successfully fetched identity that was flagged stale has the      *)
(* record (roster table, identifier) with the automatic reason and its     *)
(* display name (as the run carries it, surrounding blanks stripped), and  *)
(* every one that was not flagged has no record with the automatic reason. *)
C4_NotificationsReconciled ==
    (pc = "done" /\ NotifErrors = {}) =>
        \A r \in Rolls :
            Successes(r) # {} =>
                /\ InToAdd(r) =>
                      notif[Key(r)] = Rec(Strip(roster[r].name), ReasonText)
                /\ ~InToAdd(r) => ~HasAutoRecord(notif, r)

\* one identity went stale and got its record, another one recovered and
\* lost the automatic record it had before the run
C4_Witness ==
    /\ pc = "done" /\ NotifErrors = {}
    /\ \E r, q \in Rolls :
          /\ Successes(r) # {} /\ InToAdd(r)
          /\ notif[Key(r)] = Rec(Strip(roster[r].name), ReasonText)
          /\ Successes(q) # {} /\ InToRemove(q)
          /\ HasAutoRecord(notif0, q) /\ ~notif[Key(q)].present

(* C5: a record of this roster whose reason is not the automatic one is    *)
(* the same after the run as before it, whether its identity was           *)
(* classified stale or not.                                                *)
C5_ManualRecordsUntouched ==
    pc = "done" =>
        \A r \in Rolls :
            HasManualRecord(notif0, r) => notif[Key(r)] = notif0[Key(r)]

(* C6: when a metrics micro-chunk was abandoned, every statement planned   *)
(* after it was still executed (each metrics chunk ended written or with   *)
(* its error string, and the run went through to its last statement), and  *)
(* when the run has returned the rows of every micro-chunk whose statement *)
(* succeeded are in the metrics table.                                     *)
C6_SucceededChunksPersist ==
    (pc = "done" /\ UpsertErrors # {}) =>
        /\ Cardinality(UpsertErrors) =
              Cardinality({i \in 1..Len(MetricChunks) :
                              ~(ChunkRolls(MetricChunks[i]) \subseteq okRolls)})
        /\ chunkLog.ended /\ <<chunkLog.stage, chunkLog.idx>> = PlanEnd
        /\ \A r \in okRolls : metrics[r] = Row(StatsOf(r))

(* C7: a metrics micro-chunk is retried at most max_retries times, the     *)
(* wait before the k-th retry is base_sleep * 2^(k-1), and a chunk whose   *)
(* attempts all failed transiently was executed max_retries + 1 times,     *)
(* left exactly one error string, and is not executed again.               *)
C7_RetryCeilingAndBackoff ==
    chunkLog.stage = "metrics" =>
        /\ Len(chunkLog.sleeps) <= 3
        /\ Len(chunkLog.outs) <= 3 + 1
        /\ \A k \in 1..Len(chunkLog.sleeps) :
              chunkLog.sleeps[k] = 500 * (2 ^ (k - 1))
        /\ (chunkLog.ended /\ Range(chunkLog.outs) \subseteq TransientNames) =>
              /\ Len(chunkLog.outs) = 3 + 1
              /\ Len(chunkLog.sleeps) = 3
              /\ ErrorsAdded = 1
              /\ Last(errors).kind = "upsert retries exceeded"
              /\ Last(errors).rows = chunkLog.rows
              /\ RowsCounted = 0
              /\ MovedOn

\* a chunk whose four attempts all failed with a transient error
C7_Witness ==
    /\ MetricsEnded
    /\ Len(chunkLog.outs) = 4
    /\ Range(chunkLog.outs) = {"OperationalError"}

(* C8: a metrics micro-chunk whose statement fails with a non-transient    *)
(* error is not attempted again: one error string is recorded, nothing is  *)
(* slept after the failure, nothing is added to the updated count, and the *)
(* loop goes on to the next statement; when the first attempt fails so,    *)
(* the chunk was attempted exactly once and nothing was slept at all.      *)
C8_NonTransientNotRetried ==
    \A i \in 1..Len(chunkLog.outs) :
        (chunkLog.stage = "metrics"
         /\ chunkLog.outs[i] \notin TransientNames \cup {"ok"}) =>
            /\ i = Len(chunkLog.outs)
            /\ chunkLog.ended
            /\ Len(chunkLog.sleeps) = i - 1
            /\ ErrorsAdded = 1
            /\ Last(errors).kind = "upsert error"
            /\ Last(errors).rows = chunkLog.rows
            /\ RowsCounted = 0
            /\ MovedOn

\* a constraint violation on the first attempt of a chunk that is followed
\* by another statement, which the run has reached
C8_Witness ==
    /\ MetricsEnded
    /\ chunkLog.outs = <<"IntegrityError">>
    /\ pc \in {"metrics", "notif_remove", "notif_upsert"}

(* C9: a metrics micro-chunk whose statement fails transiently k times,    *)
(* 1 <= k <= max_retries, and then succeeds adds all its rows to the       *)
(* updated count and no error string.                                      *)
C9_RetriedSuccessCountsAllRows ==
    (MetricsEnded /\ Len(chunkLog.outs) >= 2 /\ Last(chunkLog.outs) = "ok") =>
        /\ Len(chunkLog.outs) - 1 <= 3
        /\ RowsCounted = chunkLog.rows
        /\ ErrorsAdded = 0
        /\ MovedOn

\* a chunk of two rows written at the second retry
C9_Witness ==
    /\ MetricsEnded
    /\ chunkLog.outs = <<"OperationalError", "OperationalError", "ok">>
    /\ chunkLog.rows = 2
    /\ RowsCounted = 2

(* C10: the returned count is the number of metrics rows the run           *)
(* persisted, the sum of the sizes of the micro-chunks written, between 0  *)
(* and the number of successes; the returned errors hold every fetch error *)
(* and one string for every metrics chunk that failed.                     *)
C10_ReturnedCountIsPersistedRows ==
    (pc = "done" /\ ret.returned) =>
        /\ ret.updated =
              Cardinality({r \in Rolls :
                              Successes(r) # {} /\ metrics[r] = Row(StatsOf(r))})
        /\ ret.updated = Cardinality(okRolls)
        /\ 0 <= ret.updated /\ ret.updated <= Len(results)
        /\ ret.errors = errors
        /\ Cardinality(UpsertErrors) =
              Cardinality({i \in 1..Len(MetricChunks) :
                              ~(ChunkRolls(MetricChunks[i]) \subseteq okRolls)})

----------------------------------------------------------------------------
(* The chunk plan of the metrics writes, for any number of successes       *)

\* number of successes of the largest run of the chunk-plan evaluation
MaxSuccesses == 7

\* values of DB_UPSERT_BATCH_SIZE and DB_MICRO_BATCH_SIZE found in the environment
ChunkBatchEnvs == {0, 2, 3, 30, 101}
ChunkMicroEnvs == {0, 2, 8}

\* the results list of a run with n successes (its rows named 1..n)
ResultsOfSize(n) == [i \in 1..n |-> i]

ChunkCalc(n, eb, em) ==
    [fn |-> "chunks", at |-> "env", n |-> n, batch_env |-> eb, micro_env |-> em,
     batch_size |-> 0, micro_batch_size |-> 0, issued |-> <<>>]

InitChunks ==
    /\ IdleRun
    /\ max_workers = MaxWorkers
    /\ mw = NoWriters
    /\ calc \in {ChunkCalc(n, eb, em) :
                    n \in 0..MaxSuccesses, eb \in ChunkBatchEnvs, em \in ChunkMicroEnvs}
                \cup {ChunkCalc(65, 30, 8)}

\* the two clamps of the batch settings
ChunkSettings ==
    /\ calc.fn = "chunks"
    /\ calc.at = "env"
    /\ calc' = [calc EXCEPT !.at = "write",
                            !.batch_size = ClampBatch(calc.batch_env),
                            !.micro_batch_size =
                                ClampMicro(calc.micro_env, ClampBatch(calc.batch_env))]
    /\ UNCHANGED <<tables, max_workers, mw, roster, profiles, pc, batch_size, micro_batch_size, queue,
                   running, futs, calls, results, to_add_notif, to_remove_notif,
                   updated, errors, ci, attempt, chunkLog, okRolls, metrics, notif,
                   metrics0, notif0, txAborted, faults, ret>>

\* the micro-chunks the nested loops visit
ChunkPlan ==
    MicroChunks(ResultsOfSize(calc.n), calc.batch_size, calc.micro_batch_size)

\* one pass of the inner loop: the statement of the next micro-chunk, which succeeds
ChunkIssue ==
    /\ calc.fn = "chunks"
    /\ calc.at = "write"
    /\ IF Len(calc.issued) < Len(ChunkPlan)
       THEN calc' = [calc EXCEPT !.issued = Append(@, ChunkPlan[Len(calc.issued) + 1])]
       ELSE calc' = [calc EXCEPT !.at = "done"]
    /\ UNCHANGED <<tables, max_workers, mw, roster, profiles, pc, batch_size, micro_batch_size, queue,
                   running, futs, calls, results, to_add_notif, to_remove_notif,
                   updated, errors, ci, attempt, chunkLog, okRolls, metrics, notif,
                   metrics0, notif0, txAborted, faults, ret>>

NextChunks == ChunkSettings \/ ChunkIssue

SpecChunks == InitChunks /\ [][NextChunks]_vars

RECURSIVE Flatten(_)
Flatten(ss) == IF ss = <<>> THEN <<>> ELSE Head(ss) \o Flatten(Tail(ss))

CeilDiv(a, b) == (a + b - 1) \div b

\* size of the j-th outer chunk of n rows cut every b rows
OuterSize(n, b, j) == Min(b, n - (j - 1) * b)

RECURSIVE CeilSum(_, _, _, _)
CeilSum(n, b, m, j) ==
    IF j = 0 THEN 0 ELSE CeilDiv(OuterSize(n, b, j), m) + CeilSum(n, b, m, j - 1)

\* index of the outer chunk that holds row i
OuterOf(i, b) == (i - 1) \div b

(* C11: the metrics writes go in order through consecutive outer chunks of *)
(* B rows (B clamped to 1..100), each cut into consecutive micro-chunks of *)
(* at most m rows (m clamped to 1..B); every success is in exactly one     *)
(* micro-chunk, no micro-chunk crosses an outer chunk, and without write   *)
(* failures the number of statements is the sum over the outer chunks of   *)
(* ceil(size / m): 9 statements for 65 successes, B = 30, m = 8.           *)
C11_ChunkPlan ==
    (calc.fn = "chunks" /\ calc.at # "env") =>
        LET B == calc.batch_size
            m == calc.micro_batch_size
            all == ResultsOfSize(calc.n)
            flat == Flatten(calc.issued)
        IN  /\ 1 <= B /\ B <= 100
            /\ 1 <= m /\ m <= B
            /\ Len(flat) <= calc.n
            /\ flat = SubSeq(all, 1, Len(flat))
            /\ \A k \in 1..Len(calc.issued) :
                  LET c == calc.issued[k]
                  IN  /\ 1 <= Len(c) /\ Len(c) <= m
                      /\ OuterOf(c[1], B) = OuterOf(c[Len(c)], B)
            /\ calc.at = "done" =>
                  /\ flat = all
                  /\ Len(calc.issued) = CeilSum(calc.n, B, m, CeilDiv(calc.n, B))
                  /\ (calc.n = 65 /\ B = 30 /\ m = 8) => Len(calc.issued) = 9

\* more rows than one outer chunk, a smaller last outer chunk, and micro-chunks
\* that do not divide the outer chunk
C11_Witness ==
    /\ calc.fn = "chunks"
    /\ calc.at = "done"
    /\ calc.n > calc.batch_size
    /\ calc.n % calc.batch_size # 0
    /\ calc.micro_batch_size > 1
    /\ calc.batch_size % calc.micro_batch_size # 0

----------------------------------------------------------------------------
(* Order of the notification statements *)

\* the statement executed last was a notification upsert
UpsertExecuted == chunkLog.stage = "notif_upsert"

\* the statement executed last was a notification delete
DeleteExecuted == chunkLog.stage = "notif_remove"

(* C12: within one run every notification delete statement is executed     *)
(* before the first notification upsert statement (once an upsert has been *)
(* executed no delete is executed any more), and no identity is both in    *)
(* the removal set and in the upsert set.                                  *)
C12_DeletesBeforeUpserts ==
    /\ [](\A r \in Rolls : ~(InToAdd(r) /\ InToRemove(r)))
    /\ [][UpsertExecuted => ~DeleteExecuted']_vars

\* a run that deleted a record and then executes an upsert
C12_Witness ==
    /\ UpsertExecuted
    /\ to_remove_notif # <<>>
    /\ to_add_notif # <<>>
    /\ \E r \in Rolls : InToRemove(r) /\ HasAutoRecord(notif0, r) /\ ~HasAutoRecord(notif, r)

----------------------------------------------------------------------------
(* The table precondition *)

\* nothing of the run has happened: no row of the roster became a work item, no
\* setting was read, no provider was called, no statement was executed
NothingDone ==
    /\ queue = <<>> /\ running = {}
    /\ batch_size = 0 /\ micro_batch_size = 0
    /\ \A r \in Rolls : calls[r] = NoCalls /\ futs[r] = NoFuture
    /\ results = <<>> /\ errors = <<>> /\ updated = 0
    /\ to_add_notif = <<>> /\ to_remove_notif = <<>>
    /\ chunkLog = NoLog
    /\ metrics = metrics0
    /\ notif = notif0

(* C13: when the source table or the target table does not exist, the run  *)
(* raises before any work: the roster is not read, no provider is called,  *)
(* no metrics row is written and no notification record is changed.        *)
C13_MissingTableRaisesFirst ==
    ~(tables.source /\ tables.target) =>
        /\ pc \in {"start", "raised"}
        /\ NothingDone
        /\ ~ret.returned
        /\ pc = "raised" => ret.raised = MissingTableError(tables)

\* the source table exists, the target table does not, and the run has raised
C13_Witness ==
    /\ tables.source /\ ~tables.target
    /\ pc = "raised"
    /\ ret.raised = "ValueError: Target table does not exist"

----------------------------------------------------------------------------
(* Termination of a run *)

\* number of write loops after the loop of `stage`
LoopsAfter(stage) ==
    CASE stage = "metrics" -> 2
      [] stage = "notif_remove" -> 1
      [] OTHER -> 0

\* executions one write loop can make at most: a statement for every row
\* (no chunk is empty), each executed at most max_retries + 1 times
LoopStepsMax == (MaxRoll + 1) * (max_retries + 2)

\* a bound of the executions the write stage can still make, then the commit
WriteStepsLeft ==
    IF pc = "commit" THEN 1
    ELSE 1 + LoopsAfter(pc) * LoopStepsMax
           + (MaxRoll + 1 - ci) * (max_retries + 2) - attempt

WriteStepsMax == 1 + 3 * LoopStepsMax

\* an upper bound of the number of steps the run can still take
StepsLeft ==
    CASE pc = "start" -> 3 * MaxRoll + WriteStepsMax + 1
      [] pc = "fetch" ->
           3 * Len(queue) + 2 * Cardinality(running)
           + Cardinality({r \in Rolls : futs[r] # NoFuture}) + WriteStepsMax
      [] pc \in {"metrics", "notif_remove", "notif_upsert", "commit"} -> WriteStepsLeft
      [] OTHER -> 0

\* the run is at a point where it proceeds: the roster read, a pool thread
\* or the collector with something to do, a statement to execute (it runs or
\* it raises), the commit
CanStep ==
    \/ pc = "start"
    \/ /\ pc = "fetch"
       /\ \/ queue # <<>> /\ PoolHasFreeThread
          \/ running # {}
          \/ \E r \in Rolls : futs[r] # NoFuture
    \/ pc \in {"metrics", "notif_remove", "notif_upsert", "commit"}

----------------------------------------------------------------------------
(* Identities without a handle *)

\* a handle that is NULL, empty or made of blanks only
Absent(h) == \A i \in 1..Len(h) : h[i] = " "

NoHandles(r) == Absent(roster[r].gh) /\ Absent(roster[r].lc)

Submitted(r) == \E i \in 1..Len(queue) : queue[i].roll = r

(* C15: an identity whose two handles are both absent (null, empty or      *)
(* blank) is never attempted: it is not submitted to the pool, no provider *)
(* is called for it, it yields no error string and no success, and the run *)
(* neither writes nor removes a metrics row or notification record of it.  *)
C15_NoHandleNeverAttempted ==
    \A r \in Rolls :
        NoHandles(r) =>
            /\ ~Submitted(r) /\ r \notin running
            /\ calls[r] = NoCalls /\ futs[r] = NoFuture
            /\ FetchErrors(r) = {} /\ Successes(r) = {}
            /\ ~InToAdd(r) /\ ~InToRemove(r)
            /\ metrics[r] = metrics0[r]
            /\ notif[Key(r)] = notif0[Key(r)]

\* a finished run over a roster with a row without handles that has a metrics
\* row and an automatic notification record, next to a row that was written
C15_Witness ==
    /\ pc = "done" /\ ret.returned
    /\ \E r \in Rolls :
          /\ NoHandles(r)
          /\ metrics0[r] # NoRow
          /\ HasAutoRecord(notif0, r)
    /\ \E r \in Rolls : Successes(r) # {} /\ metrics[r] # metrics0[r]

----------------------------------------------------------------------------
(* The worker pool *)

Collected(r) == Successes(r) # {} \/ FetchErrors(r) # {}

(* C16: with a pool of width W at most W work items are in progress at any *)
(* time; every submitted work item eventually completes and is collected   *)
(* by the collector, also when providers fail; the fetch stage always      *)
(* finishes with nothing queued, running or uncollected.                   *)
C16_PoolBoundedAndDrains ==
    /\ [](Cardinality(running) <= max_workers)
    /\ [](FetchDone =>
            /\ queue = <<>> /\ running = {}
            /\ \A r \in Rolls : futs[r] = NoFuture
            /\ \A r \in Rolls : HasHandle(r) => Collected(r))
    /\ <>FetchDone

\* every thread of the pool is busy while a submitted item waits in the queue
C16_Witness ==
    /\ pc = "fetch"
    /\ Cardinality(running) = max_workers
    /\ queue # <<>>

----------------------------------------------------------------------------
(* Writers of one notification key: add_or_update_notification calls that  *)
(* overlap, and the upsert statement of a run.  Each call is one           *)
(* transaction (READ COMMITTED): its UPDATE sees the committed records,    *)
(* its INSERT meets the primary key (rollnumber, table_name).              *)

\* number of add_or_update_notification calls in flight
MaxWriters == 2

Writers == 1..MaxWriters

ManualReasons == {ManualReason, "follow up"}

IdleCall == [at |-> "idle", name |-> <<>>, reason |-> ""]

\* the committed record of the key all the writers address
KeyRec == notif[<<SourceTable, mw.roll>>]

Written(rec) ==
    /\ notif' = [notif EXCEPT ![<<SourceTable, mw.roll>>] = rec]

\* the writers leave the state of the run alone
RunUntouched ==
    UNCHANGED <<tables, max_workers, calc, roster, profiles, pc, batch_size,
                micro_batch_size, queue, running, futs, calls, results,
                to_add_notif, to_remove_notif, updated, errors, ci, attempt,
                chunkLog, okRolls, metrics, metrics0, notif0, txAborted, faults,
                ret>>

InitNotif ==
    /\ RunInit({FullRoster}, FlagProfiles, NotifInits, {BothTables})
    /\ max_workers = MaxWorkers
    /\ calc = NoCalc
    /\ \E r \in Rolls :
          mw = [roll |-> r, calls |-> [w \in Writers |-> IdleCall], last |-> NoRec]

\* add_notification_for_table: the name is read from the roster, then
\* add_or_update_notification is entered
WriterCall(w) ==
    /\ RunUntouched
    /\ mw # NoWriters
    /\ mw.calls[w].at = "idle"
    /\ \E reason \in ManualReasons :
          mw' = [mw EXCEPT !.calls[w] = [at |-> "update",
                                         name |-> roster[mw.roll].name,
                                         reason |-> reason]]
    /\ UNCHANGED notif

\* UPDATE ... WHERE table_name = :t AND rollnumber = :r; with rowcount 1 the
\* block ends and the transaction commits
WriterUpdate(w) ==
    /\ RunUntouched
    /\ mw # NoWriters
    /\ mw.calls[w].at = "update"
    /\ IF KeyRec.present
       THEN /\ Written(Rec(mw.calls[w].name, mw.calls[w].reason))
            /\ mw' = [mw EXCEPT !.calls[w].at = "done",
                                !.last = Rec(mw.calls[w].name, mw.calls[w].reason)]
       ELSE /\ mw' = [mw EXCEPT !.calls[w].at = "insert"]
            /\ UNCHANGED notif

\* if res.rowcount == 0: INSERT; the primary key rejects a second record
WriterInsert(w) ==
    /\ RunUntouched
    /\ mw # NoWriters
    /\ mw.calls[w].at = "insert"
    /\ IF KeyRec.present
       THEN /\ mw' = [mw EXCEPT !.calls[w].at = "IntegrityError"]
            /\ UNCHANGED notif
       ELSE /\ Written(Rec(mw.calls[w].name, mw.calls[w].reason))
            /\ mw' = [mw EXCEPT !.calls[w].at = "done",
                                !.last = Rec(mw.calls[w].name, mw.calls[w].reason)]

\* the INSERT ... ON CONFLICT DO UPDATE of a run that flags the identity
AutoUpsert ==
    /\ RunUntouched
    /\ mw # NoWriters
    /\ LET row == NotifRow(mw.roll, Strip(roster[mw.roll].name))
       IN  /\ notif' = UpsertNotif(notif, <<row>>)
           /\ mw' = [mw EXCEPT !.last = Rec(row.name, row.reason)]

NextNotif ==
    \/ \E w \in Writers : WriterCall(w)
    \/ \E w \in Writers : WriterUpdate(w)
    \/ \E w \in Writers : WriterInsert(w)
    \/ AutoUpsert

SpecNotif == InitNotif /\ [][NextNotif]_vars

\* no call is between its UPDATE and its INSERT
NoCallInFlight == \A w \in Writers : mw.calls[w].at \notin {"update", "insert"}

(* C17: after any sequence or interleaving of notification writes for one  *)
(* (table, identifier) key, automatic upserts or add_or_update_notification *)
(* calls, no write has failed and the store holds one record for the key   *)
(* with the name and reason of the last write.                             *)
C17_LastWriteWins ==
    /\ \A w \in Writers : mw.calls[w].at # "IntegrityError"
    /\ (NoCallInFlight /\ mw.last # NoRec) => KeyRec = mw.last

----------------------------------------------------------------------------
(* compute_stats over payloads of every shape, as _fetch_and_compute calls *)
(* it for an identity with both handles whose provider calls all succeed   *)

\* number of entries of the largest submission calendar
MaxCalLen == 2

CalKeys ==
    {SecKey(TsOfAge(0)), SecKey(TsOfAge(1)), SecKey(TsOfAge(3)),
     MsKey(TsOfAge(0)), SecKey(0), TextKey}

CalCounts == {0, 2, None, NonNumeric}

CalEntries == {Entry(k, v) : k \in CalKeys, v \in CalCounts}

\* the keys of a JSON object are distinct
Calendars ==
    UNION { {c \in [1..n -> CalEntries] :
                \A i, j \in 1..n : i # j => c[i].k # c[j].k} : n \in 0..MaxCalLen }

MalformedRecents ==
    { <<NotADict>>,
      <<Sub("Wrong Answer", 0), NotADict>>,
      <<Sub("Accepted", 0), NotADict>> }

LangPayloads ==
    { [matchedUser |-> "absent", languageProblemCount |-> "absent", items |-> <<>>],
      [matchedUser |-> "null", languageProblemCount |-> "absent", items |-> <<>>],
      [matchedUser |-> "dict", languageProblemCount |-> "absent", items |-> <<>>],
      [matchedUser |-> "dict", languageProblemCount |-> "null", items |-> <<>>],
      [matchedUser |-> "dict", languageProblemCount |-> "list",
       items |-> <<[languageName |-> "Python"]>>],
      [matchedUser |-> "dict", languageProblemCount |-> "list",
       items |-> <<[languageName |-> "Python"], NotADict>>] }

\* the oldest day of a calendar of daily activity, in days before today
MaxStreakAge == 3

\* tomorrow (a clock ahead of this one), today, and the days before
StreakAges == (0 - 1)..MaxStreakAge

\* the calendar with one submission on each day of a set of ages, oldest last
AgesInOrder(ages) ==
    CHOOSE f \in [1..Cardinality(ages) -> ages] :
        \A i, j \in 1..Cardinality(ages) : i < j => f[i] < f[j]

CalendarOfAges(ages) ==
    [i \in 1..Cardinality(ages) |-> Entry(SecKey(TsOfAge(AgesInOrder(ages)[i])), 1)]

ActivityCalendars == {CalendarOfAges(ages) : ages \in SUBSET StreakAges \ {{}}}

\* a calendar of the calendar endpoint: one submission yesterday
EndpointCalendar == <<Entry(SecKey(TsOfAge(1)), 1)>>

StatsPayloads ==
    { [recentSubmissions |-> rec, lang |-> lang] :
          rec \in RecentLists \cup MalformedRecents, lang \in LangPayloads }
    \cup { [recentSubmissions |-> <<Sub("Accepted", 0)>>, submissionCalendar |-> cal] :
              cal \in Calendars }
    \cup { [recentSubmissions |-> <<Sub("Accepted", 0)>>, submissionCalendar |-> cal,
            calendar |-> EndpointCalendar] : cal \in Calendars }
    \cup { [recentSubmissions |-> <<Sub("Accepted", 0)>>, submissionCalendar |-> cal] :
              cal \in ActivityCalendars }

InitStats ==
    /\ IdleRun
    /\ max_workers = MaxWorkers
    /\ mw = NoWriters
    /\ calc \in {[fn |-> "stats", at |-> "in", payload |-> p, out |-> NoFuture] :
                    p \in StatsPayloads}

\* _fetch_and_compute of the first identity, every provider call returning
DeriveStats ==
    /\ calc.fn = "stats"
    /\ calc.at = "in"
    /\ calc' = [calc EXCEPT !.at = "out",
                            !.out = fetch_and_compute(WorkItem(1), 0, calc.payload)]
    /\ UNCHANGED <<tables, max_workers, mw, roster, profiles, pc, batch_size,
                   micro_batch_size, queue, running, futs, calls, results,
                   to_add_notif, to_remove_notif, updated, errors, ci, attempt,
                   chunkLog, okRolls, metrics, notif, metrics0, notif0, txAborted,
                   faults, ret>>

SpecStats == InitStats /\ [][DeriveStats]_vars

Derived == calc.fn = "stats" /\ calc.at = "out"

(* C18: compute_stats never raises, whatever the shape of the payloads: a  *)
(* null language container, a recent-submissions element that is not a     *)
(* record, a history count that is not a number; it returns metrics with   *)
(* null fields, so a malformed field never turns the identity into a fetch *)
(* error.                                                                  *)
C18_MalformedPayloadIsNoError ==
    Derived => calc.out.err = NoErr

----------------------------------------------------------------------------
(* Streaks and the persisted history *)

\* the calendar compute_stats reads for the payload under evaluation
CalOf == sub_cal_raw(calc.payload)

Returned == Derived /\ calc.out.err = NoErr

\* the date keys of the persisted history map whose count is not zero
NonZeroHistoryDates ==
    LET h == calc.out.stats.lc_submission_history
    IN  IF h.ok THEN {d \in DOMAIN h.map : h.map[d] # 0} ELSE {}

\* the dates the streaks are computed from (none when no streak is computed)
StreakDates ==
    IF calc.out.stats.lc_cur_streak = None THEN {} ELSE StreakDays(CalOf)

(* C19: for every submission calendar, the set of dates from which the     *)
(* current and the longest streak are computed is exactly the set of date  *)
(* keys with a non-zero count in the persisted normalized history map.     *)
C19_StreakDatesAreHistoryDates ==
    Returned => StreakDates = NonZeroHistoryDates

\* the days with a count that is neither zero nor missing
CountedDays ==
    {DateOfKey(CalOf[i].k) :
        i \in {j \in 1..Len(CalOf) :
                  /\ IsDigitKey(CalOf[j].k) /\ CalOf[j].k.t > 0
                  /\ ~FromTimestampRaises(CalOf[j].k)
                  /\ CalOf[j].v \notin {None, 0}}}

(* C20: in the streak computation a day whose count is zero or missing is  *)
(* excluded from the date set and counts toward neither streak; a calendar *)
(* whose date set is empty yields 0 for both streaks.                      *)
C20_ZeroCountDaysExcluded ==
    (Returned /\ calc.out.stats.lc_cur_streak # None) =>
        /\ StreakDays(CalOf) = CountedDays
        /\ <<calc.out.stats.lc_cur_streak, calc.out.stats.lc_max_streak>>
              = StreaksOf(CountedDays)

----------------------------------------------------------------------------
(* Date normalisation: _to_date_only and _to_date_from_ts applied to the   *)
(* decimal text of a number of seconds t and to the decimal text of        *)
(* 1000 * t                                                                *)

\* a text that starts with a date "YYYY-MM-DD" (day: its day number)
IsoKey(day) == [unit |-> "iso", t |-> day]

\* _to_date_only: a text of digits goes to fromtimestamp as it is
to_date_only(val) ==
    CASE val.unit = "text" -> None
      [] val.unit = "iso" -> val.t
      [] OTHER -> IF FromTimestampRaises(val) THEN None ELSE DateOfKey(val)

\* _to_date_from_ts on the text of a value
to_date_from_ts_text(val) ==
    IF ~IsDigitKey(val) \/ val.unit = "iso" THEN None
    ELSE IF FromTimestampRaises(val) THEN None
    ELSE DateOfKey(val)

\* last day (since the epoch) of the early timestamps that are normalised
MaxDateDay == 20

\* seconds into the day
DayOffsets == {0, 3600, SecondsPerDay - 1}

\* the timestamps normalised: early ones, recent ones, and the ones around
\* the eleven-digit boundary and around the last second of the year 9999
DateInputs ==
    {d * SecondsPerDay + o : d \in 0..MaxDateDay, o \in DayOffsets}
    \cup {TsOfAge(a) : a \in 0..(StaleDays + 1)}
    \cup {TenPow10Div1000, TenPow10Div1000 + 1,
          MaxTimestampDiv1000, MaxTimestampDiv1000 + 1}

NoDates == [sec_only |-> None, ms_only |-> None, sec_ts |-> None, ms_ts |-> None,
            iso_only |-> None]

InitDates ==
    /\ IdleRun
    /\ max_workers = MaxWorkers
    /\ mw = NoWriters
    /\ calc \in {[fn |-> "dates", at |-> "in", t |-> t, out |-> NoDates] :
                    t \in DateInputs}

\* last_commit_date = _to_date_only(raw), lastsubmission = _to_date_from_ts(ts)
NormalizeDates ==
    /\ calc.fn = "dates"
    /\ calc.at = "in"
    /\ calc' = [calc EXCEPT
                   !.at = "out",
                   !.out = [sec_only |-> to_date_only(SecKey(calc.t)),
                            ms_only |-> to_date_only(MsKey(calc.t)),
                            sec_ts |-> to_date_from_ts_text(SecKey(calc.t)),
                            ms_ts |-> to_date_from_ts_text(MsKey(calc.t)),
                            iso_only |-> to_date_only(IsoKey(calc.t \div SecondsPerDay))]]
    /\ UNCHANGED <<tables, max_workers, mw, roster, profiles, pc, batch_size,
                   micro_batch_size, queue, running, futs, calls, results,
                   to_add_notif, to_remove_notif, updated, errors, ci, attempt,
                   chunkLog, okRolls, metrics, notif, metrics0, notif0, txAborted,
                   faults, ret>>

SpecDates == InitDates /\ [][NormalizeDates]_vars

(* C21: date normalisation of a text of digits gives the same date for a   *)
(* number of epoch seconds t and for the equivalent number of epoch        *)
(* milliseconds 1000 * t: a value of more than 10 digits is taken as       *)
(* milliseconds and divided by 1000 before the conversion.                 *)
C21_MillisecondsSameDate ==
    (calc.fn = "dates" /\ calc.at = "out" /\ OverTenPow10(MsKey(calc.t))) =>
        /\ calc.out.sec_only = calc.t \div SecondsPerDay
        /\ calc.out.ms_only = calc.out.sec_only
        /\ calc.out.ms_ts = calc.out.sec_ts


----------------------------------------------------------------------------
(* The streaks of a set of activity dates *)

\* _calc_streaks built its set `days` from the calendar, and it is not empty
HasActivityDates ==
    /\ Returned
    /\ CalOf # <<>>
    /\ \A i \in StreakEntries(CalOf) : ~FromTimestampRaises(CalOf[i].k)
    /\ StreakDays(CalOf) # {}

(* C22: for every non-empty set of activity dates, the longest streak      *)
(* computed by compute_stats is greater than or equal to the current       *)
(* streak, and both are integers >= 0.                                     *)
C22_LongestAtLeastCurrent ==
    HasActivityDates =>
        /\ calc.out.stats.lc_cur_streak \in Nat
        /\ calc.out.stats.lc_max_streak \in Nat
        /\ calc.out.stats.lc_max_streak >= calc.out.stats.lc_cur_streak

\* a streak that ends today and is shorter than an older one
C22_Witness ==
    /\ HasActivityDates
    /\ calc.out.stats.lc_cur_streak >= 1
    /\ calc.out.stats.lc_max_streak > calc.out.stats.lc_cur_streak


----------------------------------------------------------------------------
(* The frame of a failed fetch *)

\* the fetch of the identity failed in this run
FetchFailed(r) == FetchErrors(r) # {}

\* the identity is in a micro-chunk of the metrics upsert
InMetricChunk(r) ==
    \E c \in 1..Len(MetricChunks) : r \in ChunkRolls(MetricChunks[c])

(* C23: an identity whose fetch failed is excluded from all further        *)
(* processing of the run: it is in no metrics micro-chunk, in neither the  *)
(* notification removal set nor the notification upsert set, and its       *)
(* metrics row and its notification record are, throughout the write stage *)
(* and when the run returns, what they were before the run.                *)
C23_FailedFetchExcluded ==
    \A r \in Rolls :
        FetchFailed(r) =>
            /\ ~InMetricChunk(r)
            /\ ~InToRemove(r)
            /\ ~InToAdd(r)
            /\ metrics[r] = metrics0[r]
            /\ notif[Key(r)] = notif0[Key(r)]

\* the run returned; the failed identity had a metrics row and an automatic
\* record, and another identity of the run was written
C23_Witness ==
    /\ pc = "done" /\ ret.returned
    /\ \E r, q \in Rolls :
          /\ FetchFailed(r)
          /\ metrics0[r].present /\ metrics[r] = metrics0[r]
          /\ HasAutoRecord(notif0, r) /\ HasAutoRecord(notif, r)
          /\ q # r /\ InMetricChunk(q) /\ metrics[q] # metrics0[q]
          /\ notif[Key(q)] # notif0[Key(q)]


----------------------------------------------------------------------------
(* The run with the providers' responses fixed before it starts: for every *)
(* identity, the provider call that raises (0: none) and the payloads the  *)
(* practice-site provider returns.  The pool threads and the collector are *)
(* scheduled freely, the storage engine executes every statement.          *)

\* no call raises, or the first one does; a fresh or a stale account
Responses == [failAt : {0, 1}, prof : FlagProfiles]

InitOrder ==
    /\ RunInit(AllRosters, FlagProfiles, NotifInits, {BothTables})
    /\ max_workers = MaxWorkers
    /\ mw = NoWriters
    /\ calc \in {[fn |-> "responses", resp |-> f] : f \in [Rolls -> Responses]}
    /\ \A r \in Rolls : calc.resp[r].failAt <= Len(CallList(WorkItem(r)))

\* the thread runs _fetch_and_compute to its return, the providers answering
\* as fixed for the identity
WorkerReturn(r) ==
    /\ pc = "fetch"
    /\ r \in running
    /\ futs' = [futs EXCEPT ![r] =
                   fetch_and_compute(WorkItem(r), calc.resp[r].failAt, calc.resp[r].prof)]
    /\ calls' = [calls EXCEPT ![r] = CallsMade(WorkItem(r), calc.resp[r].failAt)]
    /\ running' = running \ {r}
    /\ UNCHANGED <<tables, max_workers, mw, calc, roster, profiles, okRolls, pc,
                   batch_size, micro_batch_size, queue, results, to_add_notif,
                   to_remove_notif, updated, errors, ci, attempt, chunkLog,
                   metrics, notif, metrics0, notif0, txAborted, faults, ret>>

NextOrder ==
    \/ ReadRoster
    \/ \E r \in Rolls : WorkerStart(r)
    \/ \E r \in Rolls : WorkerReturn(r)
    \/ \E r \in Rolls : Collect(r)
    \/ MetricsExecOk
    \/ NotifRemoveOk
    \/ NotifUpsertOk
    \/ Return

SpecOrder == InitOrder /\ [][NextOrder]_vars

\* what the fetch of an identity returns, from the roster and the responses
Outcome(r) ==
    fetch_and_compute(WorkItem(r), calc.resp[r].failAt, calc.resp[r].prof)

Succeeds(r) == HasHandle(r) /\ Outcome(r).err = NoErr

\* the stores and the count after the identities are handled one by one
ExpectedMetrics ==
    [r \in Rolls |-> IF Succeeds(r) THEN Row(Outcome(r).stats) ELSE metrics0[r]]

ExpectedNotif ==
    [k \in Tables \X Rolls |->
        IF k[1] # SourceTable \/ ~Succeeds(k[2]) THEN notif0[k]
        ELSE IF StaleFlag(Outcome(k[2]).stats)
             THEN Rec(WorkItem(k[2]).name, ReasonText)
             ELSE IF HasAutoRecord(notif0, k[2]) THEN NoRec ELSE notif0[k]]

ExpectedUpdated == Cardinality({r \in Rolls : Succeeds(r)})

(* C24: for a fixed roster with unique identifiers, fixed provider         *)
(* responses and no write failures, the metrics store, the notification    *)
(* store and the returned updated count at the end of the run are the same *)
(* for every completion order of the fetch workers: they are what the      *)
(* roster and the responses alone determine.                               *)
C24_ResultIndependentOfOrder ==
    (pc = "done" /\ ret.returned) =>
        /\ metrics = ExpectedMetrics
        /\ notif = ExpectedNotif
        /\ ret.updated = ExpectedUpdated

\* two successes collected against the roster order, one stale and one not,
\* and the run returned
C24_Witness ==
    /\ pc = "done" /\ ret.returned
    /\ Len(results) >= 2
    /\ results[1].roll > results[2].roll
    /\ to_add_notif # <<>> /\ to_remove_notif # <<>>
    /\ metrics # metrics0 /\ notif # notif0

====
